---------------------------- MODULE Spec2Model ----------------------------
(***************************************************************************)
(* A state-machine model of src/main.py, the Nimiq validator activator:    *)
(* the RPC client nimiq_request (retry loop, one attempt per step), the    *)
(* consensus gate check_consensus, the activation run activate_validator,  *)
(* the monitoring loop monitor_active_validator and the scheduler loop of  *)
(* __main__.  The program is one sequential thread; pc names the call site *)
(* whose nimiq_request is pending, phase the position inside that call.    *)
(* An uncaught Python exception ends the process: pc = "terminated" and    *)
(* exc names the exception.                                                *)
(***************************************************************************)
EXTENDS Integers, Sequences, FiniteSets, TLC

VARIABLES
    pc,               \* call site of the pending RPC / "faucet" / "terminated"
    phase,            \* position inside nimiq_request: loop, inflight, delay, pause, returned, idle
    retries,          \* nimiq_request's local `retries`
    attempts,         \* history: HTTP POSTs made by the current nimiq_request call
    ret,              \* response.json().get('result', {}) while pausing, then the value returned
    exc,              \* the uncaught exception that ended the process, or "none"
    network,          \* NIMIQ_NETWORK
    address,          \* __main__'s `address`
    consensus_count,  \* check_consensus's local counter
    hist,             \* history: the last HistLen observations of the current gate invocation
    tx_hash,          \* the argument activate_validator passes to send_raw_tx
    activated,        \* ACTIVATED_AMOUNT{address}
    validator_active, \* VALIDATOR_ACTIVE
    epoch_number,     \* EPOCH_NUMBER
    current_balance,  \* CURRENT_BALANCE
    total_stake,      \* TOTAL_STAKE
    current_stakers,  \* CURRENT_STAKERS
    path,             \* history: what check_and_activate_validator ran in this scheduler cycle
    cycleChecks,      \* history: scheduler-level is_validator_active calls in this cycle
    fetched,          \* history: metric fetches issued in the current monitoring iteration
    runCalls,         \* history: the steps of the current activation run, in order
    nodeRetired,      \* environment: the node's `retired` flag of the validator
    env               \* environment: "adversarial" (any reply) or "cooperative" (see LiveSpec)

rpcVars   == <<phase, retries, attempts, ret>>
gateVars  == <<consensus_count, hist>>
gaugeVars == <<activated, validator_active, epoch_number, current_balance,
               total_stake, current_stakers>>
histVars  == <<path, cycleChecks, fetched, runCalls>>
confVars  == <<network, address, env>>
vars      == <<pc, phase, retries, attempts, ret, exc, network, address,
               consensus_count, hist, tx_hash, activated, validator_active,
               epoch_number, current_balance, total_stake, current_stakers,
               path, cycleChecks, fetched, runCalls, nodeRetired, env>>

---------------------------------------------------------------------------
(* Bounds of the model. *)
MaxActivated == 2   \* activation runs that may complete
HistLen      == 4   \* gate observations remembered

(* Program constants. *)
RETRIES        == 3        \* nimiq_request(retries=3)
CONSENSUS_RUNS == 3        \* while consensus_count < 3
SCALE          == 100000   \* balance / 1e5
MIN_STAKE_NIM  == 100000   \* balance >= 100000

---------------------------------------------------------------------------
(* Amounts.  A raw balance (smallest units) is hi * SCALE + lo, kept as    *)
(* two limbs because the 100,000 NIM threshold is 10^10 smallest units.    *)
(* balance / 1e5 is the rational num / den.                                *)
Raw(h, l) == [hi |-> h, lo |-> l]

RawZero == Raw(0, 0)

LimbGe(a, b) == a.hi > b.hi \/ (a.hi = b.hi /\ a.lo >= b.lo)

\* k * den as limbs, for den in {1, SCALE}
Times(k, den) == IF den = SCALE THEN Raw(k, 0) ELSE Raw(k \div SCALE, k % SCALE)

\* (mutant) the raw balance is published as it is
ToNim_Unscaled(raw) == [num |-> raw, den |-> 1]

\* balance / 1e5
ToNim(raw) == [num |-> raw, den |-> SCALE]

\* a Gauge's value before its first set(): 0.0
GaugeZero == [num |-> RawZero, den |-> SCALE]

\* nim >= k
NimGe(nim, k) == LimbGe(nim.num, Times(k, nim.den))

\* raw balances the node may report: 0, one unit below 100,000 NIM, 100,000 NIM
Balances == {RawZero, Raw(MIN_STAKE_NIM - 1, SCALE - 1), Raw(MIN_STAKE_NIM, 0)}

\* validator stake balances the node may report: 100 NIM
Stakes == {Raw(100, 0)}

\* numStakers values the node may report
StakerCounts == {1}

\* epoch numbers the node may report
Epochs == {1}

---------------------------------------------------------------------------
(* JSON-RPC results.  kind "None" is Python's None as returned by          *)
(* nimiq_request, "Null" a response whose `result` is null, "Obj" a result *)
(* object with or without an `error` key and a `data` key.                 *)
NoVal == [tag |-> "none", raw |-> RawZero, n |-> 0]

PyNone == [kind |-> "None", error |-> FALSE, data |-> "absent", val |-> NoVal]

JsonNull == [kind |-> "Null", error |-> FALSE, data |-> "absent", val |-> NoVal]

\* response without a `result` key: .get('result', {}) yields {}
EmptyObj == [kind |-> "Obj", error |-> FALSE, data |-> "absent", val |-> NoVal]

ErrorObj == [kind |-> "Obj", error |-> TRUE, data |-> "absent", val |-> NoVal]

NullData == [kind |-> "Obj", error |-> FALSE, data |-> "null", val |-> NoVal]

DataObj(v) == [kind |-> "Obj", error |-> FALSE, data |-> "val", val |-> v]

Val(t, r, k) == [tag |-> t, raw |-> r, n |-> k]

\* the RPC method each call site sends
Method(site) ==
    CASE site = "get_address"     -> "getAddress"
      [] site = "check_consensus" -> "isConsensusEstablished"
      [] site = "is_active"       -> "getValidatorByAddress"
      [] site = "mon_active"      -> "getValidatorByAddress"
      [] site = "mon_epoch"       -> "getEpochNumber"
      [] site = "mon_stake"       -> "getValidatorByAddress"
      [] site = "mon_balance"     -> "getAccountByAddress"
      [] site = "needs_funds"     -> "getAccountByAddress"
      [] site = "import_key"      -> "importRawKey"
      [] site = "unlock"          -> "unlockAccount"
      [] site = "wait_stake"      -> "getAccountByAddress"
      [] site = "create_tx"       -> "createNewValidatorTransaction"
      [] site = "send_tx"         -> "sendRawTransaction"
      [] OTHER                    -> "none"

CallSites == {"get_address", "check_consensus", "is_active", "mon_active",
              "mon_epoch", "mon_stake", "mon_balance", "needs_funds",
              "import_key", "unlock", "wait_stake", "create_tx", "send_tx"}

\* the `data` values a well-formed answer of the node carries
NodeData(m) ==
    CASE m = "getAddress"             -> {Val("addr", RawZero, 0)}
      [] m = "isConsensusEstablished" -> {Val("true", RawZero, 0), Val("false", RawZero, 0)}
      [] m = "getValidatorByAddress"  ->
             {Val(IF nodeRetired THEN "retired" ELSE "active", s, k) :
                 s \in Stakes, k \in StakerCounts}
      [] m = "getAccountByAddress"    -> {Val("balance", b, 0) : b \in Balances}
      [] m = "getEpochNumber"         -> {Val("epoch", RawZero, k) : k \in Epochs}
      [] m = "createNewValidatorTransaction" -> {Val("tx", RawZero, 0)}
      [] m = "sendRawTransaction"     -> {Val("hash", RawZero, 0)}
      [] OTHER                        -> {Val("ok", RawZero, 0)}

\* `data` objects that lack the field the caller reads
PartialData(m) ==
    CASE m = "getValidatorByAddress" -> {Val("noretired", RawZero, 0)}
      [] m = "getAccountByAddress"   -> {Val("nobalance", RawZero, 0),
                                         Val("nullbalance", RawZero, 0)}
      [] OTHER                       -> {}

\* methods whose answers the cooperative environment keeps well-formed
Reported == {"isConsensusEstablished", "getValidatorByAddress"}

\* what .get('result', {}) may be after a 2xx response to method m
Results(m) ==
    IF env = "cooperative" /\ m \in Reported
    THEN {DataObj(v) : v \in IF m = "isConsensusEstablished"
                              THEN {Val("true", RawZero, 0)} ELSE NodeData(m)}
    ELSE {JsonNull, EmptyObj, ErrorObj, NullData}
           \cup {DataObj(v) : v \in NodeData(m) \cup PartialData(m)}

---------------------------------------------------------------------------
(* Pure parts of the functions of main.py. *)

\* bool(result): a non-empty dict
Truthy(r) == r.kind = "Obj" /\ (r.error \/ r.data # "absent")

\* 'data' in result
HasData(r) == r.kind = "Obj" /\ r.data # "absent"

\* check_consensus: res is not None and res.get('data') == True
Positive(r) == r.kind = "Obj" /\ r.data = "val" /\ r.val.tag = "true"

\* is_validator_active: "active", "inactive", or the exception it raises
IsActiveOutcome(r) ==
    IF ~(Truthy(r) /\ HasData(r)) THEN "inactive"
    ELSE IF r.data = "null" THEN "TypeError"
    ELSE IF r.val.tag = "noretired" THEN "KeyError"
    ELSE IF r.val.tag = "active" THEN "active"
    ELSE "inactive"

\* (mutant) a check that fails sets the gauge to 0
ActiveGauge_ResetOnFailure(r, old) ==
    IF IsActiveOutcome(r) = "active" THEN 1 ELSE 0

\* is_validator_active: VALIDATOR_ACTIVE after the call, given its value before
ActiveGauge(r, old) ==
    IF IsActiveOutcome(r) = "active" THEN 1
    ELSE IF Truthy(r) /\ HasData(r) /\ r.data = "val" /\ r.val.tag = "retired" THEN 0
    ELSE old

\* get_balance: "ok" with the raw balance, "none" (returns None), or the exception
GetBalance(r) ==
    IF r.kind = "None" THEN [status |-> "none", raw |-> RawZero]
    ELSE IF r.error THEN [status |-> "none", raw |-> RawZero]
    ELSE IF r.data = "absent" THEN [status |-> "KeyError", raw |-> RawZero]
    ELSE IF r.data = "null" THEN [status |-> "TypeError", raw |-> RawZero]
    ELSE IF r.val.tag = "nobalance" THEN [status |-> "KeyError", raw |-> RawZero]
    ELSE IF r.val.tag = "nullbalance" THEN [status |-> "none", raw |-> RawZero]
    ELSE [status |-> "ok", raw |-> r.val.raw]

\* (mutant) the faucet is asked for when the balance is not zero
NeedsFunds_NonZero(r) ==
    IF r.kind = "None" THEN FALSE
    ELSE IF r.data # "val" THEN TRUE
    ELSE IF r.val.tag = "nobalance" THEN TRUE
    ELSE IF r.val.tag = "nullbalance" THEN FALSE
    ELSE r.val.raw # RawZero

\* (mutant) a failed balance query asks for the faucet too
NeedsFunds_OnFailure(r) ==
    IF r.kind = "None" THEN TRUE
    ELSE IF r.data # "val" THEN TRUE
    ELSE IF r.val.tag = "nobalance" THEN TRUE
    ELSE IF r.val.tag = "nullbalance" THEN FALSE
    ELSE r.val.raw = RawZero

\* needs_funds
NeedsFunds(r) ==
    IF r.kind = "None" THEN FALSE
    ELSE IF r.data # "val" THEN TRUE
    ELSE IF r.val.tag = "nobalance" THEN TRUE
    ELSE IF r.val.tag = "nullbalance" THEN FALSE
    ELSE r.val.raw = RawZero

\* (mutant) the raw balance is compared, unscaled
EnoughStake_Unscaled(raw) == NimGe([num |-> raw, den |-> 1], MIN_STAKE_NIM)

\* wait_for_enough_stake: balance >= 100000 after balance = balance / 1e5
EnoughStake(raw) == NimGe(ToNim(raw), MIN_STAKE_NIM)

\* get_epoch_number: "skip" (returns None), "set", or the exception
EpochOutcome(r) ==
    IF r.kind = "None" THEN "skip"
    ELSE IF r.data = "absent" THEN "KeyError"
    ELSE IF r.data = "null" THEN "TypeError"
    ELSE "set"

\* get_stake_by_address: "set" or the exception
StakeOutcome(r) ==
    IF r.kind # "None" /\ HasData(r)
    THEN IF r.data = "null" THEN "AttributeError" ELSE "set"
    ELSE "UnboundLocalError"

\* activate_validator: result.get('data') of createNewValidatorTransaction
TxData(r) ==
    IF r.kind = "None" THEN "AttributeError"
    ELSE IF r.data = "val" THEN "tx"
    ELSE "none"

\* send_raw_tx: whether the transaction was accepted (result without `error`)
SendOk(r) == r.kind = "Obj" /\ ~r.error

\* the last k elements of s
LastN(s, k) == IF Len(s) <= k THEN s ELSE SubSeq(s, Len(s) - k + 1, Len(s))

\* the steps s of an activation run, with the call of x added
Step(s, x) == Append(s, x)

---------------------------------------------------------------------------
(* nimiq_request, one step per action. *)

\* the call begins: method is posted from call site `site`
Invoke(site) ==
    /\ pc' = site
    /\ phase' = "loop"
    /\ retries' = RETRIES
    /\ attempts' = 0
    /\ ret' = PyNone

\* an uncaught exception ends the process
Crash(e) ==
    /\ pc' = "terminated"
    /\ exc' = e
    /\ phase' = "idle"
    /\ retries' = 0
    /\ attempts' = 0
    /\ ret' = PyNone

\* (mutant) while retries >= 0
RetryCond_OffByOne(r) == r >= 0

\* while retries > 0
RetryCond(r) == r > 0

\* requests.post(...)
Post ==
    /\ pc \in CallSites /\ phase = "loop" /\ RetryCond(retries)
    /\ phase' = "inflight"
    /\ attempts' = attempts + 1
    /\ UNCHANGED <<pc, retries, ret, exc, gateVars, tx_hash, gaugeVars, histVars,
                   confVars, nodeRetired>>

\* the loop is left: "Request failed after multiple retries.", return None
GiveUp ==
    /\ pc \in CallSites /\ phase = "loop" /\ ~RetryCond(retries)
    /\ phase' = "returned"
    /\ ret' = PyNone
    /\ UNCHANGED <<pc, retries, attempts, exc, gateVars, tx_hash, gaugeVars,
                   histVars, confVars, nodeRetired>>

\* (mutant) the next attempt is made without time.sleep(delay)
AttemptFails_NoDelay ==
    /\ pc \in CallSites /\ phase = "inflight"
    /\ env = "adversarial" \/ Method(pc) \notin Reported
    /\ retries' = retries - 1
    /\ phase' = "inflight"
    /\ attempts' = attempts + 1
    /\ UNCHANGED <<pc, ret, exc, gateVars, tx_hash, gaugeVars, histVars,
                   confVars, nodeRetired>>

\* requests.exceptions.RequestException: a transport failure or a non-2xx status
AttemptFails ==
    /\ pc \in CallSites /\ phase = "inflight"
    /\ env = "adversarial" \/ Method(pc) \notin Reported
    /\ retries' = retries - 1
    /\ phase' = "delay"
    /\ UNCHANGED <<pc, attempts, ret, exc, gateVars, tx_hash, gaugeVars, histVars,
                   confVars, nodeRetired>>

\* time.sleep(delay) is over
DelayDone ==
    /\ pc \in CallSites /\ phase = "delay"
    /\ phase' = "loop"
    /\ UNCHANGED <<pc, retries, attempts, ret, exc, gateVars, tx_hash, gaugeVars,
                   histVars, confVars, nodeRetired>>

\* a 2xx response: result = response.json().get('result', {}).  A body that
\* is not JSON makes response.json() raise: a RequestException with current
\* requests (as AttemptFails), a plain ValueError with older ones (as the null
\* result of PauseDone).
Respond ==
    /\ pc \in CallSites /\ phase = "inflight"
    /\ \E r \in Results(Method(pc)) : ret' = r
    /\ phase' = "pause"
    /\ UNCHANGED <<pc, retries, attempts, exc, gateVars, tx_hash, gaugeVars,
                   histVars, confVars, nodeRetired>>

\* time.sleep(0.5) is over: raise ValueError on a null result, else return it
PauseDone ==
    /\ pc \in CallSites /\ phase = "pause"
    /\ IF ret.kind = "Null"
       THEN Crash("ValueError")
       ELSE phase' = "returned" /\ UNCHANGED <<pc, retries, attempts, ret, exc>>
    /\ UNCHANGED <<gateVars, tx_hash, gaugeVars, histVars, confVars, nodeRetired>>

---------------------------------------------------------------------------
(* check_consensus and the scheduler loop of __main__. *)

\* (mutant) the counter is kept from the previous invocation
GateStartCount_Carried == consensus_count

\* consensus_count = 0 at the start of check_consensus
GateStartCount == 0

\* (mutant) a negative observation decrements the counter
NextCount_Decrement(c, positive) == IF positive THEN c + 1 ELSE IF c > 0 THEN c - 1 ELSE 0

\* (mutant) a negative observation leaves the counter as it is
NextCount_Sticky(c, positive) == IF positive THEN c + 1 ELSE c

\* the counter after one observation
NextCount(c, positive) == IF positive THEN c + 1 ELSE 0

\* while consensus_count < 3: poll again, else return True and let
\* check_and_activate_validator call is_validator_active
GateLoop(c) ==
    IF c < CONSENSUS_RUNS
    THEN Invoke("check_consensus") /\ cycleChecks' = 0
    ELSE Invoke("is_active") /\ cycleChecks' = cycleChecks + 1

\* (mutant) a cycle that finds the address missing fetches it again
EnterCycle_Refetch ==
    /\ consensus_count' = GateStartCount
    /\ hist' = <<>>
    /\ IF address = "None"
       THEN Invoke("get_address") /\ cycleChecks' = 0
       ELSE GateLoop(GateStartCount)
    /\ path' = "none"
    /\ fetched' = <<>>
    /\ runCalls' = <<>>

\* the next iteration of `while True` in __main__ (after time.sleep(30))
EnterCycle ==
    /\ consensus_count' = GateStartCount
    /\ hist' = <<>>
    /\ GateLoop(GateStartCount)
    /\ path' = "none"
    /\ fetched' = <<>>
    /\ runCalls' = <<>>

\* address = get_address(), then the first scheduler cycle
GetAddressReturn ==
    /\ pc = "get_address" /\ phase = "returned"
    /\ IF ret.kind = "Obj" /\ ret.data = "absent"
       THEN /\ Crash("KeyError")
            /\ UNCHANGED <<address, gateVars, histVars>>
       ELSE /\ address' = IF ret.kind = "Obj" /\ ret.data = "val" THEN "addr" ELSE "None"
            /\ EnterCycle
            /\ UNCHANGED exc
    /\ UNCHANGED <<network, env, tx_hash, gaugeVars, nodeRetired>>

\* one observation of check_consensus, the sleep of 5 s, and the loop test
GateObserve ==
    /\ pc = "check_consensus" /\ phase = "returned"
    /\ consensus_count' = NextCount(consensus_count, Positive(ret))
    /\ hist' = LastN(Append(hist, Positive(ret)), HistLen)
    /\ GateLoop(consensus_count')
    /\ UNCHANGED <<exc, tx_hash, gaugeVars, path, fetched, runCalls, confVars,
                   nodeRetired>>

\* (mutant) the two branches are swapped
Branch_Swapped(o) == IF o = "active" THEN "activate" ELSE "monitor"

\* check_and_activate_validator: what runs when is_validator_active gave o
Branch(o) == IF o = "active" THEN "monitor" ELSE "activate"

\* check_and_activate_validator: the branch on is_validator_active, up to the
\* first call of monitor_active_validator or of activate_validator
CheckActiveReturn ==
    /\ pc = "is_active" /\ phase = "returned"
    /\ LET o == IsActiveOutcome(ret) IN
         CASE o \in {"active", "inactive"} /\ Branch(o) = "monitor" ->
                /\ validator_active' = ActiveGauge(ret, validator_active)
                /\ path' = "monitor"
                /\ Invoke("mon_active")
                /\ hist' = <<>>
                /\ UNCHANGED <<exc, runCalls>>
           [] o \in {"active", "inactive"} /\ Branch(o) = "activate" ->
                /\ validator_active' = ActiveGauge(ret, validator_active)
                /\ path' = "activate"
                /\ IF network = "testnet"
                   THEN Invoke("needs_funds") /\ runCalls' = <<"needs_funds">>
                   ELSE Invoke("import_key") /\ runCalls' = <<"import_key">>
                /\ hist' = <<>>
                /\ UNCHANGED exc
           [] OTHER ->
                /\ Crash(o)
                /\ UNCHANGED <<validator_active, path, hist, runCalls>>
    /\ UNCHANGED <<consensus_count, tx_hash, activated, epoch_number,
                   current_balance, total_stake, current_stakers, cycleChecks,
                   fetched, confVars, nodeRetired>>

---------------------------------------------------------------------------
(* monitor_active_validator. *)

\* if not is_validator_active(address): break, and back in __main__ the sleep
\* of 30 s and the next cycle; else get_epoch_number()
MonActiveReturn ==
    /\ pc = "mon_active" /\ phase = "returned"
    /\ LET o == IsActiveOutcome(ret) IN
         CASE o = "active" ->
                /\ validator_active' = ActiveGauge(ret, validator_active)
                /\ Invoke("mon_epoch")
                /\ fetched' = <<"epoch">>
                /\ UNCHANGED <<exc, gateVars, path, cycleChecks, runCalls>>
           [] o = "inactive" ->
                /\ validator_active' = ActiveGauge(ret, validator_active)
                /\ EnterCycle
                /\ UNCHANGED exc
           [] OTHER ->
                /\ Crash(o)
                /\ UNCHANGED <<validator_active, gateVars, histVars>>
    /\ UNCHANGED <<tx_hash, activated, epoch_number, current_balance, total_stake,
                   current_stakers, confVars, nodeRetired>>

\* get_epoch_number() returns, get_stake_by_address(address) is called
MonEpochReturn ==
    /\ pc = "mon_epoch" /\ phase = "returned"
    /\ LET o == EpochOutcome(ret) IN
         IF o \in {"skip", "set"}
         THEN /\ epoch_number' = IF o = "set" THEN ret.val.n ELSE epoch_number
              /\ Invoke("mon_stake")
              /\ fetched' = Append(fetched, "stake")
              /\ UNCHANGED exc
         ELSE /\ Crash(o)
              /\ UNCHANGED <<epoch_number, fetched>>
    /\ UNCHANGED <<gateVars, tx_hash, activated, validator_active, current_balance,
                   total_stake, current_stakers, path, cycleChecks, runCalls,
                   confVars, nodeRetired>>

\* get_stake_by_address(address) returns, set_balance_prometheus(address) is called
MonStakeReturn ==
    /\ pc = "mon_stake" /\ phase = "returned"
    /\ LET o == StakeOutcome(ret) IN
         IF o = "set"
         THEN /\ total_stake' = ToNim(ret.val.raw)
              /\ current_stakers' = ret.val.n
              /\ Invoke("mon_balance")
              /\ fetched' = Append(fetched, "balance")
              /\ UNCHANGED exc
         ELSE /\ Crash(o)
              /\ UNCHANGED <<total_stake, current_stakers, fetched>>
    /\ UNCHANGED <<gateVars, tx_hash, activated, validator_active, epoch_number,
                   current_balance, path, cycleChecks, runCalls, confVars,
                   nodeRetired>>

\* set_balance_prometheus(address) returns; time.sleep(30); the next iteration
MonBalanceReturn ==
    /\ pc = "mon_balance" /\ phase = "returned"
    /\ LET b == GetBalance(ret) IN
         IF b.status \in {"ok", "none"}
         THEN /\ current_balance' = IF b.status = "ok" THEN ToNim(b.raw)
                                    ELSE current_balance
              /\ Invoke("mon_active")
              /\ fetched' = <<>>
              /\ UNCHANGED exc
         ELSE /\ Crash(b.status)
              /\ UNCHANGED <<current_balance, fetched>>
    /\ UNCHANGED <<gateVars, tx_hash, activated, validator_active, epoch_number,
                   total_stake, current_stakers, path, cycleChecks, runCalls,
                   confVars, nodeRetired>>

---------------------------------------------------------------------------
(* activate_validator.  The key files are taken to be well formed. *)

\* needs_funds(ADDRESS) returns: the faucet POST, or "Address already funded."
NeedsFundsReturn ==
    /\ pc = "needs_funds" /\ phase = "returned"
    /\ IF NeedsFunds(ret)
       THEN /\ pc' = "faucet"
            /\ phase' = "idle"
            /\ runCalls' = Step(runCalls, "faucet")
            /\ UNCHANGED <<retries, attempts, ret>>
       ELSE /\ Invoke("import_key")
            /\ runCalls' = Step(runCalls, "import_key")
    /\ UNCHANGED <<exc, gateVars, tx_hash, gaugeVars, path, cycleChecks, fetched,
                   confVars, nodeRetired>>

\* requests.post(FACUET_URL, ...) returns, whatever its status
FaucetPost ==
    /\ pc = "faucet"
    /\ Invoke("import_key")
    /\ runCalls' = Step(runCalls, "import_key")
    /\ UNCHANGED <<exc, gateVars, tx_hash, gaugeVars, path, cycleChecks, fetched,
                   confVars, nodeRetired>>

\* requests.post(FACUET_URL, ...) raises: nothing catches it
FaucetFails ==
    /\ pc = "faucet"
    /\ Crash("RequestException")
    /\ UNCHANGED <<gateVars, tx_hash, gaugeVars, histVars, confVars, nodeRetired>>

\* nimiq_request("importRawKey", ...) returns; its result is not looked at
ImportKeyReturn ==
    /\ pc = "import_key" /\ phase = "returned"
    /\ Invoke("unlock")
    /\ runCalls' = Step(runCalls, "unlock")
    /\ UNCHANGED <<exc, gateVars, tx_hash, gaugeVars, path, cycleChecks, fetched,
                   confVars, nodeRetired>>

\* nimiq_request("unlockAccount", ...) returns; wait_for_enough_stake begins
UnlockReturn ==
    /\ pc = "unlock" /\ phase = "returned"
    /\ Invoke("wait_stake")
    /\ runCalls' = Step(runCalls, "wait_stake")
    /\ UNCHANGED <<exc, gateVars, tx_hash, gaugeVars, path, cycleChecks, fetched,
                   confVars, nodeRetired>>

\* one iteration of wait_for_enough_stake; on break, createNewValidatorTransaction
WaitStakeReturn ==
    /\ pc = "wait_stake" /\ phase = "returned"
    /\ LET b == GetBalance(ret) IN
         CASE b.status = "ok" ->
                /\ current_balance' = ToNim(b.raw)
                /\ IF EnoughStake(b.raw)
                   THEN Invoke("create_tx") /\ runCalls' = Step(runCalls, "create_tx")
                   ELSE Invoke("wait_stake") /\ UNCHANGED runCalls
                /\ UNCHANGED exc
           [] b.status = "none" ->
                /\ Invoke("wait_stake")
                /\ UNCHANGED <<exc, current_balance, runCalls>>
           [] OTHER ->
                /\ Crash(b.status)
                /\ UNCHANGED <<current_balance, runCalls>>
    /\ UNCHANGED <<gateVars, tx_hash, activated, validator_active, epoch_number,
                   total_stake, current_stakers, path, cycleChecks, fetched,
                   confVars, nodeRetired>>

\* createNewValidatorTransaction returns; send_raw_tx(result.get('data'))
CreateTxReturn ==
    /\ pc = "create_tx" /\ phase = "returned"
    /\ LET d == TxData(ret) IN
         IF d \in {"tx", "none"}
         THEN /\ tx_hash' = d
              /\ Invoke("send_tx")
              /\ runCalls' = Step(runCalls, "send_tx")
              /\ UNCHANGED exc
         ELSE /\ Crash(d)
              /\ UNCHANGED <<tx_hash, runCalls>>
    /\ UNCHANGED <<gateVars, gaugeVars, path, cycleChecks, fetched, confVars,
                   nodeRetired>>

\* (mutant) only an accepted transaction is counted
Activated_OnlyOnSuccess(n, r) == IF SendOk(r) THEN n + 1 ELSE n

\* ACTIVATED_AMOUNT after send_raw_tx returned with result r
Activated(n, r) == n + 1

\* send_raw_tx returns; ACTIVATED_AMOUNT.labels(address=ADDRESS).inc(); return
\* True; back in __main__ the sleep of 30 s and the next cycle
SendTxReturn ==
    /\ pc = "send_tx" /\ phase = "returned"
    /\ activated < MaxActivated
    /\ activated' = Activated(activated, ret)
    /\ tx_hash' = "none"
    /\ EnterCycle
    /\ UNCHANGED <<exc, validator_active, epoch_number, current_balance,
                   total_stake, current_stakers, confVars, nodeRetired>>

---------------------------------------------------------------------------
(* The node. *)

\* the validator is retired
NodeRetire ==
    /\ pc # "terminated" /\ ~nodeRetired
    /\ nodeRetired' = TRUE
    /\ UNCHANGED <<pc, rpcVars, exc, gateVars, tx_hash, gaugeVars, histVars, confVars>>

\* the validator becomes active
NodeActivate ==
    /\ pc # "terminated" /\ nodeRetired
    /\ nodeRetired' = FALSE
    /\ UNCHANGED <<pc, rpcVars, exc, gateVars, tx_hash, gaugeVars, histVars, confVars>>

---------------------------------------------------------------------------
\* the state after start_http_server(...), get_address() just called
InitCommon ==
    /\ pc = "get_address" /\ phase = "loop" /\ retries = RETRIES /\ attempts = 0
    /\ ret = PyNone /\ exc = "none"
    /\ network \in {"testnet", "main"}
    /\ address = "unset"
    /\ consensus_count = 0 /\ hist = <<>>
    /\ tx_hash = "none"
    /\ activated = 0 /\ validator_active = 0 /\ epoch_number = 0
    /\ current_balance = GaugeZero /\ total_stake = GaugeZero /\ current_stakers = 0
    /\ path = "none" /\ cycleChecks = 0 /\ fetched = <<>> /\ runCalls = <<>>
    /\ nodeRetired \in BOOLEAN

Init == InitCommon /\ env = "adversarial"

Request == Post \/ GiveUp \/ AttemptFails \/ DelayDone \/ Respond \/ PauseDone

Scheduler == GetAddressReturn \/ GateObserve \/ CheckActiveReturn

Monitor == MonActiveReturn \/ MonEpochReturn \/ MonStakeReturn \/ MonBalanceReturn

Activation ==
    \/ NeedsFundsReturn \/ FaucetPost \/ FaucetFails \/ ImportKeyReturn
    \/ UnlockReturn \/ WaitStakeReturn \/ CreateTxReturn \/ SendTxReturn

Program == Request \/ Scheduler \/ Monitor \/ Activation

Next == Program \/ NodeRetire \/ NodeActivate

Spec == Init /\ [][Next]_vars

(* The cooperative environment: every isConsensusEstablished call is answered *)
(* with data true, every getValidatorByAddress call with the node's retired   *)
(* flag, and a retired validator stays retired; all other calls may still     *)
(* fail in every way.  The program is one thread that is never suspended, and *)
(* every request is eventually answered or fails: weak fairness of Program.   *)
LiveInit == InitCommon /\ env = "cooperative"

LiveNext == Program \/ NodeRetire

LiveSpec == LiveInit /\ [][LiveNext]_vars /\ WF_vars(Program)

---------------------------------------------------------------------------
(* Properties. *)

MonSites == {"mon_active", "mon_epoch", "mon_stake", "mon_balance"}

ActSites == {"needs_funds", "faucet", "import_key", "unlock", "wait_stake",
             "create_tx", "send_tx"}

\* the last three observations exist and are all positive
ThreePositive(h) ==
    /\ Len(h) >= CONSENSUS_RUNS
    /\ \A i \in (Len(h) - CONSENSUS_RUNS + 1)..Len(h) : h[i]

\* a step of the program that consumes the value nimiq_request returned at site
Returns(site) == pc = site /\ phase = "returned" /\ phase' # "returned"

\* C1: at every observation of a gate invocation, the gate returns
\* "established" (and the status check is called) if and only if that
\* observation and the two before it, in the same invocation, are all positive.
ConsensusDebounce ==
    [][Returns("check_consensus") =>
          ((pc' = "is_active") <=> ThreePositive(hist'))]_vars

\* C1 witness: the gate returned on the third positive observation after a
\* negative one.
ConsensusDebounceWitness ==
    pc = "is_active" /\ hist = <<FALSE, TRUE, TRUE, TRUE>>

\* C2 (as claimed): the activated-count gauge never decreases and grows, by
\* one, only when sendRawTransaction returned a result without an error field.
ActivationCounterClaim ==
    [][activated' # activated =>
          /\ activated' = activated + 1
          /\ pc = "send_tx" /\ phase = "returned"
          /\ SendOk(ret)]_vars

\* C3: inside nimiq_request the attempts made so far are the failed ones, plus
\* the one in flight or answered; at most RETRIES are made; the call returns
\* None exactly after RETRIES failed attempts, with retries at 0, never below.
RetryBound ==
    /\ retries \in 0..RETRIES
    /\ attempts \in 0..RETRIES
    /\ phase \in {"loop", "delay"} => attempts = RETRIES - retries
    /\ phase \in {"inflight", "pause"} => attempts = RETRIES - retries + 1
    /\ phase = "returned" =>
          IF ret = PyNone
          THEN attempts = RETRIES /\ retries = 0
          ELSE attempts = RETRIES - retries + 1

\* C3 witness: a call gave up after three failed attempts.
RetryBoundWitness ==
    phase = "returned" /\ ret = PyNone /\ attempts = 3 /\ retries = 0

\* C4 (as claimed): nimiq_request always ends by returning, and a response
\* whose result is absent or null is returned as None.
RpcNeverRaises ==
    [][(pc \in CallSites /\ phase = "pause" /\ phase' # "pause") =>
          /\ phase' = "returned"
          /\ (ret \in {JsonNull, EmptyObj} => ret' = PyNone)]_vars

\* C5: createNewValidatorTransaction is called only from the stake wait, on a
\* balance observation of at least 100000 * 100000 smallest units; an
\* observation below that, or a fetch that returned None, polls again; every
\* successful observation is published, scaled, to the current-balance gauge.
StakeGate ==
    [][/\ (pc' = "create_tx" /\ pc # "create_tx") =>
             /\ pc = "wait_stake" /\ phase = "returned"
             /\ GetBalance(ret).status = "ok"
             /\ LimbGe(GetBalance(ret).raw, Raw(100000, 0))
       /\ (Returns("wait_stake") /\ GetBalance(ret).status = "ok") =>
             /\ current_balance' = [num |-> GetBalance(ret).raw, den |-> 100000]
             /\ (~LimbGe(GetBalance(ret).raw, Raw(100000, 0)) =>
                    pc' = "wait_stake" /\ phase' = "loop")
       /\ (Returns("wait_stake") /\ GetBalance(ret).status = "none") =>
             /\ pc' = "wait_stake" /\ phase' = "loop"
             /\ current_balance' = current_balance]_vars

\* C5 witness: the stake wait ended on an observation of exactly 100,000 NIM.
StakeGateWitness ==
    pc = "create_tx" /\ current_balance = [num |-> Raw(100000, 0), den |-> 100000]

\* C6: the scheduler-level status check is called only when the gate returned
\* with three positives, once per cycle; its answer selects the monitoring
\* loop (active) or the activation run (otherwise), never both in one cycle;
\* when that path returns, a new cycle starts at the gate.
SchedulerAlternation ==
    [][/\ (pc' = "is_active" /\ pc # "is_active") =>
             pc = "check_consensus" /\ consensus_count' = 3 /\ cycleChecks' = 1
       /\ cycleChecks' <= 1
       /\ (Returns("is_active") /\ pc' # "terminated") =>
             IF IsActiveOutcome(ret) = "active"
             THEN pc' = "mon_active" /\ path' = "monitor"
             ELSE pc' \in {"needs_funds", "import_key"} /\ path' = "activate"
       /\ (pc' \in MonSites => path' = "monitor")
       /\ (pc' \in ActSites => path' = "activate")
       /\ (path # "none" /\ path' # path) =>
             path' = "none" /\ pc' = "check_consensus" /\ cycleChecks' = 0]_vars

\* C6 witness: a second cycle, after a completed activation run, has taken the
\* monitoring path.
SchedulerAlternationWitness ==
    activated = 1 /\ path = "monitor" /\ pc = "mon_balance" /\ cycleChecks = 1

\* C7: every gate invocation starts counting at 0, and whenever the status
\* check of a cycle is called the gate of that same cycle has just seen three
\* positive observations in a row.
FreshConsensus ==
    /\ (pc = "check_consensus" /\ hist = <<>>) => consensus_count = 0
    /\ pc = "is_active" => ThreePositive(hist) /\ consensus_count = 3

\* C7 witness: the status check of a cycle that follows a completed activation
\* run.
FreshConsensusWitness ==
    pc = "is_active" /\ activated = 1 /\ ThreePositive(hist)

\* C8 (as claimed): once the monitoring loop runs and the node reports the
\* validator retired, from then on, while consensus is established, the
\* program eventually enters the activation run.
MonitoringHandoff == (path = "monitor" /\ nodeRetired) ~> (path = "activate")

\* What does hold in the cooperative environment: the handoff happens unless
\* the process has terminated on an uncaught exception.
HandoffUnlessTerminated ==
    (path = "monitor" /\ nodeRetired) ~> (path = "activate" \/ pc = "terminated")

\* C9 (as claimed): the monitoring loop ends at an iteration exactly when its
\* active-check gave "not active"; an iteration whose check gave "active"
\* fetches epoch, stake and balance, in that order, and stays in the loop; the
\* iteration that ends the loop fetches nothing.
MonitorLoopExit ==
    [][/\ Returns("mon_active") =>
             ((pc' = "check_consensus") <=> (IsActiveOutcome(ret) = "inactive"))
       /\ (Returns("mon_active") /\ IsActiveOutcome(ret) = "active") =>
             pc' = "mon_epoch"
       /\ (Returns("mon_epoch") \/ Returns("mon_stake") \/ Returns("mon_balance")) =>
             pc' \in MonSites
       /\ (pc = "mon_balance" /\ pc' = "mon_active") =>
             fetched = <<"epoch", "stake", "balance">>
       /\ (pc \in MonSites /\ pc' = "check_consensus") =>
             pc = "mon_active" /\ fetched = <<>>]_vars

\* an outcome of a call that the failure policy names: no result after the
\* retries, a result with an error field, a result without data or balance
ListedOutcome(r) ==
    \/ r = PyNone
    \/ r.kind = "Obj" /\ r.error
    \/ r.kind = "Obj" /\ r.data = "absent"
    \/ r.kind = "Obj" /\ r.data = "val" /\ r.val.tag \in {"nobalance", "noretired"}

\* C10 (as claimed): after startup, no step that handles such an outcome, in
\* the gate, the activation run or the monitoring loop, terminates the process.
FailureAbsorbed ==
    [][(pc \in CallSites \ {"get_address"} /\ phase = "returned" /\ ListedOutcome(ret))
          => pc' # "terminated"]_vars

\* C11: in every activation run, the first or a later one, a non-zero
\* balance answer skips the faucet, importRawKey and unlockAccount lead to the
\* next step whatever result or error payload they return, a balance of at
\* least 100,000 NIM ends the stake wait at once, and a constructed
\* transaction is submitted.
IdempotentReentry ==
    [][/\ (Returns("needs_funds") /\ ret.kind = "Obj" /\ ret.data = "val"
              /\ ret.val.tag = "balance" /\ ret.val.raw # RawZero) =>
             pc' = "import_key"
       /\ (Returns("import_key") /\ ret.kind = "Obj") => pc' = "unlock"
       /\ (Returns("unlock") /\ ret.kind = "Obj") => pc' = "wait_stake"
       /\ (Returns("wait_stake") /\ GetBalance(ret).status = "ok"
              /\ LimbGe(GetBalance(ret).raw, Raw(100000, 0))) =>
             pc' = "create_tx"
       /\ (Returns("create_tx") /\ ret.kind = "Obj" /\ ret.data = "val") =>
             pc' = "send_tx" /\ tx_hash' = "tx"]_vars

\* C11 witness: the second run in a row has reached the submission without
\* calling the faucet.
IdempotentReentryWitness ==
    /\ activated = 1 /\ pc = "send_tx" /\ tx_hash = "tx"
    /\ runCalls = <<"needs_funds", "import_key", "unlock", "wait_stake",
                    "create_tx", "send_tx">>

\* C12: every value written to the current-balance gauge (stake wait,
\* monitoring loop) and to the total-stake gauge (stake fetch) is the raw
\* balance of that observation divided by 100000; nothing else writes them,
\* and no value is published unscaled.
UnitScaling ==
    [][/\ ((Returns("wait_stake") \/ Returns("mon_balance"))
              /\ GetBalance(ret).status = "ok") =>
             current_balance' = [num |-> GetBalance(ret).raw, den |-> 100000]
       /\ (Returns("mon_stake") /\ pc' # "terminated") =>
             total_stake' = [num |-> ret.val.raw, den |-> 100000]
       /\ current_balance' # current_balance => pc \in {"wait_stake", "mon_balance"}
       /\ total_stake' # total_stake => pc = "mon_stake"
       /\ current_balance'.den = 100000 /\ total_stake'.den = 100000]_vars

\* C12 witness: a raw stake of 10,000,000 (100 * 100000 + 0) is published as
\* 100, and a raw balance of 10^10 as 100000.
UnitScalingWitness ==
    /\ total_stake = [num |-> Raw(100, 0), den |-> 100000]
    /\ NimGe(total_stake, 100) /\ ~NimGe(total_stake, 101)
    /\ current_balance = [num |-> Raw(100000, 0), den |-> 100000]

\* C13: the gate's counter stays in 0..3; an observation with data true adds
\* exactly 1; any other observation (data false, no data, an error payload, a
\* failed call) sets it to 0; nothing else changes it but the start of an
\* invocation, which sets it to 0.
CounterInvariant ==
    [][/\ consensus_count' \in 0..3
       /\ Returns("check_consensus") =>
             consensus_count' =
                IF ret.kind = "Obj" /\ ret.data = "val" /\ ret.val.tag = "true"
                THEN consensus_count + 1
                ELSE 0
       /\ (consensus_count' # consensus_count /\ ~Returns("check_consensus")) =>
             consensus_count' = 0 /\ hist' = <<>>]_vars

\* C13 witness: a negative observation after two positive ones has set the
\* counter from 2 to 0.
CounterInvariantWitness ==
    pc = "check_consensus" /\ consensus_count = 0 /\ hist = <<TRUE, TRUE, FALSE>>

\* the order of the steps of an activation run
RunOrder ==
    {<<"needs_funds", "faucet">>, <<"needs_funds", "import_key">>,
     <<"faucet", "import_key">>, <<"import_key", "unlock">>,
     <<"unlock", "wait_stake">>, <<"wait_stake", "create_tx">>,
     <<"create_tx", "send_tx">>}

\* C14 (as claimed): the steps of an activation run follow one another in the
\* order (faucet) -> importRawKey -> unlockAccount -> stake wait ->
\* createNewValidatorTransaction -> sendRawTransaction, and a step whose call
\* returned no result is not followed by the next step.
ActivationOrderGated ==
    [][/\ (pc \in ActSites /\ pc' \in ActSites /\ pc' # pc) => <<pc, pc'>> \in RunOrder
       /\ ((Returns("import_key") \/ Returns("unlock") \/ Returns("create_tx"))
              /\ ret = PyNone) =>
             pc' \notin ActSites]_vars

\* C15 (as claimed): when createNewValidatorTransaction returns no result or
\* a result without usable `data`, the run does not fault and does not call
\* sendRawTransaction: the scheduler's next cycle begins.
MissingTxDataRecoverable ==
    [][(Returns("create_tx") /\ TxData(ret) # "tx") =>
          /\ pc' \notin {"terminated", "send_tx"}
          /\ pc' = "check_consensus" /\ path' = "none"]_vars

\* C16: the faucet POST is issued only on testnet and only when the balance
\* query of the run returned a result that shows no non-zero balance; a query
\* without result, or a non-zero balance, leads to importRawKey; a run holds at
\* most one faucet POST; and when the POST returns the next call is
\* importRawKey, no balance having been read in between.
FaucetGating ==
    [][/\ (pc' = "faucet" /\ pc # "faucet") =>
             /\ network = "testnet"
             /\ Returns("needs_funds")
             /\ ret.kind = "Obj"
             /\ ~(ret.data = "val" /\ ret.val.tag = "balance" /\ ret.val.raw # RawZero)
       /\ (Returns("needs_funds")
              /\ (\/ ret = PyNone
                  \/ (ret.kind = "Obj" /\ ret.data = "val" /\ ret.val.tag = "balance"
                         /\ ret.val.raw # RawZero))) =>
             pc' = "import_key"
       /\ Cardinality({i \in DOMAIN runCalls' : runCalls'[i] = "faucet"}) <= 1
       /\ (pc = "faucet" /\ pc' \notin {"faucet", "terminated"}) =>
             /\ pc' = "import_key"
             /\ current_balance' = current_balance]_vars

\* C16 witness: on testnet the faucet was asked once and importRawKey follows.
FaucetGatingWitness ==
    /\ network = "testnet" /\ pc = "import_key"
    /\ runCalls = <<"needs_funds", "faucet", "import_key">>

\* C17: a request is posted only from the head of the retry loop, one attempt
\* at a time; a posted request is followed by the 0.5 s pause (answer) or by
\* the retry delay (failure), and only when that is over does the call return
\* or try again; a call from another site begins only after the previous call
\* has returned, whichever function makes it.
SequentialRpc ==
    [][/\ (attempts' # attempts /\ pc' # "terminated" /\ attempts' # 0) =>
             /\ phase = "loop" /\ phase' = "inflight"
             /\ pc' = pc /\ attempts' = attempts + 1
       /\ phase = "inflight" =>
             /\ phase' \in {"inflight", "pause", "delay"}
             /\ pc' = pc /\ attempts' = attempts
       /\ phase = "pause" =>
             \/ phase' \in {"pause", "returned"} /\ pc' = pc /\ attempts' = attempts
             \/ pc' = "terminated"
       /\ phase = "delay" =>
             phase' \in {"delay", "loop"} /\ pc' = pc /\ attempts' = attempts
       /\ (phase' = "loop" /\ phase # "loop") => phase \in {"delay", "returned", "idle"}
       /\ (pc' # pc /\ pc' \in CallSites) =>
             phase \in {"returned", "idle"} /\ phase' = "loop" /\ attempts' = 0]_vars

\* C17 witness: after getAddress was answered, a second attempt of
\* isConsensusEstablished is in flight, its first having failed.
SequentialRpcWitness ==
    /\ address = "addr" /\ pc = "check_consensus"
    /\ phase = "inflight" /\ attempts = 2 /\ retries = 2

\* C18: the address is set by the return of the one get_address call made at
\* startup, before any scheduler cycle; once set, or left None by a failed
\* fetch, no step changes it and getAddress is not called again.
AddressImmutable ==
    [][/\ address = "unset" => pc \in {"get_address", "terminated"}
       /\ address # "unset" => address' = address /\ pc' # "get_address"
       /\ address' # address => Returns("get_address") /\ address = "unset"
       /\ (Returns("get_address") /\ ret = PyNone) => address' = "None"]_vars

\* C18 witness: the startup fetch failed and an activation run has been
\* completed with the address still None.
AddressImmutableWitness ==
    /\ address = "None" /\ activated = 1 /\ pc = "check_consensus"

\* a call of is_validator_active returns
ActiveCheckReturns == Returns("is_active") \/ Returns("mon_active")

\* C19: VALIDATOR_ACTIVE changes only at the return of an active-check whose
\* result contains `data`, and is then 1 if `retired` is false and 0 if it is
\* true; a check without result or without `data` leaves it as it was; it is 1
\* whenever the monitoring loop fetches epoch, stake or balance.  (The witness:
\* an activation run under way with the gauge still 1.)
ActiveGaugeFrame ==
    [][/\ validator_active' # validator_active => ActiveCheckReturns /\ HasData(ret)
       /\ (ActiveCheckReturns /\ ret.kind = "Obj" /\ ret.data = "val"
              /\ ret.val.tag \in {"active", "retired"}) =>
             validator_active' = IF ret.val.tag = "active" THEN 1 ELSE 0
       /\ (ActiveCheckReturns /\ (ret.kind = "None" \/ ret.data = "absent")) =>
             validator_active' = validator_active
       /\ pc \in {"mon_epoch", "mon_stake", "mon_balance"} => validator_active = 1]_vars

\* C19 witness: activate_validator is running, entered after a failed
\* active-check, while the gauge still shows 1.
ActiveGaugeFrameWitness ==
    /\ path = "activate" /\ pc = "wait_stake" /\ validator_active = 1

\* how many times the step x occurs in the steps s of a run
Times_Called(s, x) == Cardinality({i \in DOMAIN s : s[i] = x})

\* C20: an activation run goes back to the scheduler only from the return of
\* send_raw_tx, having called createNewValidatorTransaction once and then
\* sendRawTransaction once, and that step adds exactly 1 to ACTIVATED_AMOUNT;
\* no other step changes the gauge (so it counts the completed runs).
OneSubmissionPerRun ==
    [][/\ (path = "activate" /\ path' = "none") =>
             /\ Returns("send_tx")
             /\ Times_Called(runCalls, "create_tx") = 1
             /\ Times_Called(runCalls, "send_tx") = 1
             /\ LastN(runCalls, 2) = <<"create_tx", "send_tx">>
             /\ activated' = activated + 1
       /\ activated' # activated => path = "activate" /\ path' = "none"]_vars

\* C20 witness: two activation runs have been completed.
OneSubmissionPerRunWitness ==
    /\ activated = 2 /\ path = "none" /\ runCalls = <<>> /\ pc = "check_consensus"

====
